---- MODULE Spec2Model ----
(***************************************************************************)
(* Model of aider/history.py: the ChatSummary history compactor            *)
(* (summarize / summarize_all / tokenize) and the transcript parser of     *)
(* main().  Python lists are sequences; list index i of the source is      *)
(* index i + 1 here.  Strings are sequences of symbols.                    *)
(***************************************************************************)
EXTENDS Integers, Sequences, FiniteSets, TLC

\* ------------------------------------------------------------------ bounds
MaxTurns == 4
MaxBudget == 7
MaxSummary == 2
MaxCalls == 4

\* ------------------------------------------------------------ data domain
Roles == {"user", "assistant", "system"}

Contents == {<<"a">>, <<"b", "\n">>}

Turn == [role : Roles, content : Contents]

RECURSIVE SeqsUpTo(_, _)
SeqsUpTo(S, n) ==
    IF n = 0 THEN {<<>>}
    ELSE LET shorter == SeqsUpTo(S, n - 1)
         IN shorter \cup {Append(s, x) : s \in {t \in shorter : Len(t) = n - 1}, x \in S}

Transcripts == SeqsUpTo(Turn, MaxTurns)

Budgets == 1..MaxBudget

\* what the summary collaborator may answer: a text of 0..MaxSummary symbols
Responses == SeqsUpTo({"s"}, MaxSummary)

\* the failures the collaborator may raise
Failures == {"RateLimited", "Timeout"}

\* the value of result while nothing was returned (None)
NoResult == <<[role |-> "none", content |-> <<>>]>>

\* --------------------------------------------------------- pure functions

\* prompts.summary_prefix: the fixed tag put in front of every summary
summary_prefix == <<"prefix">>

\* json.dumps(msg) of one message: its role and its content
Dumps(msg) == <<msg.role>> \o msg.content

\* json.dumps(list of messages): the bracketed dumps of its elements
RECURSIVE DumpsList(_)
DumpsList(msgs) ==
    IF msgs = <<>> THEN <<"[", "]">>
    ELSE <<"[">> \o Dumps(Head(msgs)) \o Tail(DumpsList(Tail(msgs)))

\* len(self.tokenizer.encode(s)): one token per symbol of the serialization
TokenCount(s) == Len(s)

\* ChatSummary.tokenize: the (tokens, msg) pairs
tokenize(messages) ==
    [i \in 1..Len(messages) |-> <<TokenCount(Dumps(messages[i])), messages[i]>>]

\* sum(tokens for tokens, _msg in sized)
RECURSIVE SumTokens(_)
SumTokens(sized) ==
    IF sized = <<>> THEN 0 ELSE Head(sized)[1] + SumTokens(Tail(sized))

\* summarize, lines 35-37: the summed cost of the messages
Total(messages) == SumTokens(tokenize(messages))

\* summarize, line 37, with "<" in place of "<="
FitsStrictly(messages, limit) == Total(messages) < limit

\* summarize, line 37: total <= self.max_tokens
Fits(messages, limit) == Total(messages) <= limit

\* summarize, line 54, with the operands exchanged
TailThenSummary(summary, tail) == tail \o summary

\* summarize, line 54: result = summary + tail
Result(summary, tail) == summary \o tail

\* summarize, line 55, with the cost of the summary left out
TailFitsAlone(summary_tokens, tail_tokens, limit) == tail_tokens < limit

\* summarize, line 55: summary_tokens + tail_tokens < self.max_tokens
StepFits(summary_tokens, tail_tokens, limit) == summary_tokens + tail_tokens < limit

\* ChatSummary.too_big
too_big(messages, limit) == Total(messages) > limit

\* the while loop left out: num stays where the halving put it
StaySplit(messages, num) == num

\* the while loop stopping one message early
RECURSIVE AdvanceSplitEarly(_, _)
AdvanceSplitEarly(messages, num) ==
    IF messages[num + 1].role = "assistant" /\ num < Len(messages) - 2
    THEN AdvanceSplitEarly(messages, num + 1)
    ELSE num

\* summarize, lines 43-44: the while loop that moves num forward over
\* assistant messages; num is the 0-based list index of the source
RECURSIVE AdvanceSplit(_, _)
AdvanceSplit(messages, num) ==
    IF messages[num + 1].role = "assistant" /\ num < Len(messages) - 1
    THEN AdvanceSplit(messages, num + 1)
    ELSE num

\* summarize, line 40, halving len - 1 instead of len
SplitIndexLow(messages) == AdvanceSplit(messages, (Len(messages) - 1) \div 2)

\* summarize, line 40, rounding the half up
SplitIndexCeil(messages) == AdvanceSplit(messages, (Len(messages) + 1) \div 2)

\* summarize, lines 40-44
SplitIndex(messages) == AdvanceSplit(messages, Len(messages) \div 2)

\* str.upper() on the role names
Upper(role) ==
    CASE role = "user" -> "USER"
      [] role = "assistant" -> "ASSISTANT"
      [] role = "system" -> "SYSTEM"

EndsWithNewline(content) == content # <<>> /\ content[Len(content)] = "\n"

\* the loop of summarize_all that builds the text sent to the collaborator
RECURSIVE HeadContent(_, _)
HeadContent(messages, content) ==
    IF messages = <<>> THEN content
    ELSE LET msg == Head(messages)
             role == Upper(msg.role)
             withMsg == content \o <<"# ", role, "\n">> \o msg.content
             closed == IF EndsWithNewline(withMsg) THEN withMsg ELSE withMsg \o <<"\n">>
         IN IF role \notin {"USER", "ASSISTANT"}
            THEN HeadContent(Tail(messages), content)
            ELSE HeadContent(Tail(messages), closed)

\* the one-element list summarize_all returns for a collaborator answer
SummaryMessages(response) ==
    <<[role |-> "user", content |-> summary_prefix \o response]>>

\* ------------------------------------------------------------------ state
VARIABLES
    input,        \* the list the caller passed to summarize
    max_tokens,   \* self.max_tokens
    messages,     \* the argument of the current summarize frame
    pc,           \* "summarize" | "send" | "done" | "failed" ("idle": no call)
    num,          \* num of the current frame (0-based split index once split)
    request,      \* the text handed to the collaborator by the pending call
    result,       \* what the outermost summarize returned
    raised,       \* the failure that ended the call
    calls,        \* collaborator calls issued so far (saturates at MaxCalls)
    messages_id,  \* which list object messages is: 0 the caller's list, k the
                  \* list built by step k
    result_id,    \* which list object was returned (-1: none)
    text,         \* main: the text read from the file
    lines,        \* main: text.splitlines(keepends=True)
    pos,          \* main: position of the for loop in lines (1-based)
    assistant,    \* main: the buffered assistant lines
    main_messages,\* main: the messages list built by the loop
    handed,       \* main: the list passed on to summarize
    ppc,          \* main: "scan" | "done" ("idle": no parse)
    frames,       \* concurrent calls: the locals of each summarize invocation
    inflight      \* concurrent calls: the collaborator calls not yet answered

cvars == <<input, max_tokens, messages, pc, num, request, result, raised, calls,
           messages_id, result_id>>

pvars == <<text, lines, pos, assistant, main_messages, handed, ppc>>

kvars == <<frames, inflight>>

vars == <<cvars, pvars, kvars>>

Bump(n) == IF n < MaxCalls THEN n + 1 ELSE n

ParserIdle ==
    /\ text = <<>>
    /\ lines = <<>>
    /\ pos = 1
    /\ assistant = <<>>
    /\ main_messages = <<>>
    /\ handed = <<>>
    /\ ppc = "idle"

\* no concurrent invocations
ConcIdle ==
    /\ frames = <<>>
    /\ inflight = {}

Init ==
    /\ input \in Transcripts
    /\ max_tokens \in Budgets
    /\ messages = input
    /\ pc = "summarize"
    /\ num = Len(input)
    /\ request = <<>>
    /\ result = NoResult
    /\ raised = "none"
    /\ calls = 0
    /\ messages_id = 0
    /\ result_id = -1
    /\ ParserIdle
    /\ ConcIdle

\* summarize, lines 30-33: fewer than two messages are returned as they are
ReturnTrivial ==
    /\ pc = "summarize"
    /\ Len(messages) < 2
    /\ pc' = "done"
    /\ result' = messages
    /\ result_id' = messages_id
    /\ UNCHANGED <<input, max_tokens, messages, num, request, raised, calls, messages_id, pvars, kvars>>

\* summarize, lines 35-38: a list within max_tokens is returned as it is
ReturnFits ==
    /\ pc = "summarize"
    /\ Len(messages) >= 2
    /\ Fits(messages, max_tokens)
    /\ pc' = "done"
    /\ result' = messages
    /\ result_id' = messages_id
    /\ UNCHANGED <<input, max_tokens, messages, num, request, raised, calls, messages_id, pvars, kvars>>

\* summarize, lines 40-49 and summarize_all, lines 61-76: split, build the
\* text of the head and call the collaborator
SplitAndSend ==
    /\ pc = "summarize"
    /\ Len(messages) >= 2
    /\ ~Fits(messages, max_tokens)
    /\ num' = SplitIndex(messages)
    /\ request' = HeadContent(SubSeq(messages, 1, num'), <<>>)
    /\ calls' = Bump(calls)
    /\ pc' = "send"
    /\ UNCHANGED <<input, max_tokens, messages, result, raised, messages_id, result_id, pvars, kvars>>

\* the result built in place in the list of the frame (messages[:num] =
\* summary) instead of as a new list
SummaryReturnsInPlace(response) ==
    /\ pc = "send"
    /\ LET sized == tokenize(messages)
           tail == SubSeq(messages, num + 1, Len(messages))
           summary == SummaryMessages(response)
           tail_tokens == SumTokens(SubSeq(sized, num + 1, Len(sized)))
           summary_tokens == TokenCount(DumpsList(summary))
           res == Result(summary, tail)
       IN /\ input' = IF messages_id = 0 THEN res ELSE input
          /\ IF StepFits(summary_tokens, tail_tokens, max_tokens)
             THEN /\ pc' = "done"
                  /\ result' = res
                  /\ result_id' = messages_id
                  /\ UNCHANGED <<messages, num>>
             ELSE /\ pc' = "summarize"
                  /\ messages' = res
                  /\ num' = Len(res)
                  /\ UNCHANGED <<result, result_id>>
    /\ request' = <<>>
    /\ UNCHANGED <<max_tokens, raised, calls, messages_id, pvars, kvars>>

\* summarize_all, lines 77-80 and summarize, lines 51-58: the collaborator
\* answered; build the result (a new list), return it if it fits, otherwise
\* recurse on it
SummaryReturns(response) ==
    /\ pc = "send"
    /\ LET sized == tokenize(messages)
           tail == SubSeq(messages, num + 1, Len(messages))
           summary == SummaryMessages(response)
           tail_tokens == SumTokens(SubSeq(sized, num + 1, Len(sized)))
           summary_tokens == TokenCount(DumpsList(summary))
           res == Result(summary, tail)
       IN IF StepFits(summary_tokens, tail_tokens, max_tokens)
          THEN /\ pc' = "done"
               /\ result' = res
               /\ result_id' = calls
               /\ UNCHANGED <<messages, num, messages_id>>
          ELSE /\ pc' = "summarize"
               /\ messages' = res
               /\ messages_id' = calls
               /\ num' = Len(res)
               /\ UNCHANGED <<result, result_id>>
    /\ request' = <<>>
    /\ UNCHANGED <<input, max_tokens, raised, calls, pvars, kvars>>

\* a failure swallowed: the messages of the current frame are returned
SummaryFailsFallback(failure) ==
    /\ pc = "send"
    /\ pc' = "done"
    /\ raised' = failure
    /\ result' = messages
    /\ result_id' = messages_id
    /\ request' = <<>>
    /\ UNCHANGED <<input, max_tokens, messages, num, calls, messages_id, pvars, kvars>>

\* simple_send_with_retries raised: nothing in summarize_all or summarize
\* catches it, so it leaves every frame
SummaryFails(failure) ==
    /\ pc = "send"
    /\ pc' = "failed"
    /\ raised' = failure
    /\ request' = <<>>
    /\ UNCHANGED <<input, max_tokens, messages, num, result, calls, messages_id, result_id, pvars, kvars>>

\* ---------------------------------------------------------------- parser
MaxLines == 3

\* representative lines of a chat history file, as written by the session
HeaderLine == <<"#", " ", "h", "\n">>

QuoteLine == <<">", " ", "q", "\r", "\n">>

CommandLine == <<"#", "#", "#", "#", " ", "/", "r", "\n">>

UserLine == <<"#", "#", "#", "#", " ", "h", "i", "\n">>

EmptyUserLine == <<"#", "#", "#", "#", " ", "\n">>

SpaceUserLine == <<"#", "#", "#", "#", " ", " ", "\t", "\n">>

BlankUserLine == <<"#", "#", "#", "#", " ", "<", "b", "l", "a", "n", "k", ">", "\n">>

TextLine == <<"o", "k", "\n">>

EmptyLine == <<"\n">>

HashTextLine == <<"#", "#", "#", "#", "x", "\n">>

UnterminatedText == <<"e", "n", "d">>

UnterminatedPrompt == <<"#", "#", "#", "#", " ">>

LineCatalogue ==
    {HeaderLine, QuoteLine, CommandLine, UserLine, EmptyUserLine, SpaceUserLine,
     BlankUserLine, TextLine, EmptyLine, HashTextLine, UnterminatedText,
     UnterminatedPrompt}

\* "".join(parts)
RECURSIVE Join(_)
Join(parts) == IF parts = <<>> THEN <<>> ELSE Head(parts) \o Join(Tail(parts))

Texts == {Join(ls) : ls \in SeqsUpTo(LineCatalogue, MaxLines)}

\* the line boundaries of str.splitlines (the other boundary characters of
\* Python behave as "\f" does)
LineBreaks == {"\n", "\r", "\f"}

\* str.splitlines(keepends=True), scanning from position i with the line cur
\* open and the lines out closed
RECURSIVE SplitFrom(_, _, _, _)
SplitFrom(s, i, cur, out) ==
    IF i > Len(s) THEN (IF cur = <<>> THEN out ELSE Append(out, cur))
    ELSE IF s[i] = "\r" /\ i < Len(s) /\ s[i + 1] = "\n"
         THEN SplitFrom(s, i + 2, <<>>, Append(out, cur \o <<"\r", "\n">>))
    ELSE IF s[i] \in LineBreaks
         THEN SplitFrom(s, i + 1, <<>>, Append(out, Append(cur, s[i])))
    ELSE SplitFrom(s, i + 1, Append(cur, s[i]), out)

splitlines(s) == SplitFrom(s, 1, <<>>, <<>>)

\* str.startswith
startswith(s, prefix) ==
    Len(s) >= Len(prefix) /\ SubSeq(s, 1, Len(prefix)) = prefix

Whitespace == {" ", "\t", "\n", "\r", "\f"}

RECURSIVE LStrip(_)
LStrip(s) ==
    IF s # <<>> /\ Head(s) \in Whitespace THEN LStrip(Tail(s)) ELSE s

RECURSIVE RStrip(_)
RStrip(s) ==
    IF s # <<>> /\ s[Len(s)] \in Whitespace THEN RStrip(SubSeq(s, 1, Len(s) - 1)) ELSE s

\* str.strip()
strip(s) == RStrip(LStrip(s))

HeaderMarker == <<"#", " ">>

QuoteMarker == <<">">>

CommandMarker == <<"#", "#", "#", "#", " ", "/">>

PromptMarker == <<"#", "#", "#", "#", " ">>

BlankPlaceholder == <<"<", "b", "l", "a", "n", "k", ">">>

\* line[5:]
AfterPrompt(line) == SubSeq(line, 6, Len(line))

\* messages[-40:]
LastMessages(msgs) ==
    IF Len(msgs) <= 40 THEN msgs ELSE SubSeq(msgs, Len(msgs) - 39, Len(msgs))

CompactorIdle ==
    /\ input = <<>>
    /\ max_tokens = 1024
    /\ messages = <<>>
    /\ pc = "idle"
    /\ num = 0
    /\ request = <<>>
    /\ result = NoResult
    /\ raised = "none"
    /\ calls = 0
    /\ messages_id = 0
    /\ result_id = -1

\* main, lines 88-93: the file is read and split into lines
ParseInit ==
    /\ text \in Texts
    /\ lines = splitlines(text)
    /\ pos = 1
    /\ assistant = <<>>
    /\ main_messages = <<>>
    /\ handed = <<>>
    /\ ppc = "scan"
    /\ ConcIdle
    /\ CompactorIdle

CurrentLine == lines[pos]

Scanning == ppc = "scan" /\ pos <= Len(lines)

\* main, lines 94-95
SkipHeader ==
    /\ Scanning
    /\ startswith(CurrentLine, HeaderMarker)
    /\ pos' = pos + 1
    /\ UNCHANGED <<text, lines, assistant, main_messages, handed, ppc, cvars, kvars>>

\* main, lines 96-97
SkipQuote ==
    /\ Scanning
    /\ ~startswith(CurrentLine, HeaderMarker)
    /\ startswith(CurrentLine, QuoteMarker)
    /\ pos' = pos + 1
    /\ UNCHANGED <<text, lines, assistant, main_messages, handed, ppc, cvars, kvars>>

\* a command echo taken as a boundary: the buffer is flushed
SkipCommandFlushing ==
    /\ Scanning
    /\ ~startswith(CurrentLine, HeaderMarker)
    /\ ~startswith(CurrentLine, QuoteMarker)
    /\ startswith(CurrentLine, CommandMarker)
    /\ main_messages' =
         IF assistant # <<>>
         THEN Append(main_messages, [role |-> "assistant", content |-> Join(assistant)])
         ELSE main_messages
    /\ assistant' = <<>>
    /\ pos' = pos + 1
    /\ UNCHANGED <<text, lines, handed, ppc, cvars, kvars>>

\* main, lines 98-99
SkipCommand ==
    /\ Scanning
    /\ ~startswith(CurrentLine, HeaderMarker)
    /\ ~startswith(CurrentLine, QuoteMarker)
    /\ startswith(CurrentLine, CommandMarker)
    /\ pos' = pos + 1
    /\ UNCHANGED <<text, lines, assistant, main_messages, handed, ppc, cvars, kvars>>

\* main, lines 102-106: the messages list after the buffer is flushed
FlushAssistant(msgs, buffer) ==
    IF buffer # <<>> /\ strip(Join(buffer)) # <<>>
    THEN Append(msgs, [role |-> "assistant", content |-> Join(buffer)])
    ELSE msgs

\* main, line 109, without the comparison against the placeholder
AppendUserNoPlaceholder(msgs, line) ==
    LET content == AfterPrompt(line)
    IN IF strip(content) # <<>>
       THEN Append(msgs, [role |-> "user", content |-> AfterPrompt(line)])
       ELSE msgs

\* main, lines 108-110: the messages list after the prompt line is handled
AppendUser(msgs, line) ==
    LET content == AfterPrompt(line)
    IN IF strip(content) # <<>> /\ strip(content) # BlankPlaceholder
       THEN Append(msgs, [role |-> "user", content |-> AfterPrompt(line)])
       ELSE msgs

\* main, lines 101-111
UserPrompt ==
    /\ Scanning
    /\ ~startswith(CurrentLine, HeaderMarker)
    /\ ~startswith(CurrentLine, QuoteMarker)
    /\ ~startswith(CurrentLine, CommandMarker)
    /\ startswith(CurrentLine, PromptMarker)
    /\ main_messages' = AppendUser(FlushAssistant(main_messages, assistant), CurrentLine)
    /\ assistant' = <<>>
    /\ pos' = pos + 1
    /\ UNCHANGED <<text, lines, handed, ppc, cvars, kvars>>

\* main, line 113
AssistantLine ==
    /\ Scanning
    /\ ~startswith(CurrentLine, HeaderMarker)
    /\ ~startswith(CurrentLine, QuoteMarker)
    /\ ~startswith(CurrentLine, CommandMarker)
    /\ ~startswith(CurrentLine, PromptMarker)
    /\ assistant' = Append(assistant, CurrentLine)
    /\ pos' = pos + 1
    /\ UNCHANGED <<text, lines, main_messages, handed, ppc, cvars, kvars>>

\* main, lines 115-116: the loop is over, the last messages go to summarize
HandOver ==
    /\ ppc = "scan"
    /\ pos > Len(lines)
    /\ handed' = LastMessages(main_messages)
    /\ ppc' = "done"
    /\ UNCHANGED <<text, lines, pos, assistant, main_messages, cvars, kvars>>

ParseNext ==
    \/ SkipHeader
    \/ SkipQuote
    \/ SkipCommand
    \/ UserPrompt
    \/ AssistantLine
    \/ HandOver

ParseSpec == ParseInit /\ [][ParseNext]_vars

Next ==
    \/ ReturnTrivial
    \/ ReturnFits
    \/ SplitAndSend
    \/ \E response \in Responses : SummaryReturns(response)
    \/ \E failure \in Failures : SummaryFails(failure)

Spec == Init /\ [][Next]_vars

\* the collaborator call and the steps of summarize are always taken in the
\* end: the call is blocking and the recursion is a plain call
FairSpec == Spec /\ WF_vars(Next)

TypeOK ==
    /\ pc \in {"summarize", "send", "done", "failed", "idle"}
    /\ ppc \in {"scan", "done", "idle"}
    /\ calls \in 0..MaxCalls
    /\ num \in 0..(MaxTurns + 1)

\* ------------------------------------------------------ concurrent calls
\* Two summarize invocations on one ChatSummary instance, their steps
\* interleaved.  The instance holds the tokenizer and max_tokens, which
\* summarize only reads; everything else is a local of the invocation.
MaxConcTurns == 3
MaxConcCalls == 2

Procs == {1, 2}

ConcTurn == [role : {"user", "assistant"}, content : {<<"a">>}]

ConcTranscripts == SeqsUpTo(ConcTurn, MaxConcTurns)

\* the locals of an invocation that was just entered with the list t
NewFrame(t) ==
    [input |-> t, messages |-> t, pc |-> "summarize", num |-> Len(t),
     result |-> NoResult, raised |-> "none", calls |-> 0, log |-> <<>>]

ConcInit ==
    /\ max_tokens \in Budgets
    /\ \E t1 \in ConcTranscripts, t2 \in ConcTranscripts :
          /\ t1 # t2
          /\ frames = <<NewFrame(t1), NewFrame(t2)>>
    /\ inflight = {}
    /\ input = <<>>
    /\ messages = <<>>
    /\ pc = "idle"
    /\ num = 0
    /\ request = <<>>
    /\ result = NoResult
    /\ raised = "none"
    /\ calls = 0
    /\ messages_id = 0
    /\ result_id = -1
    /\ ParserIdle

Other(p) == 3 - p

\* num kept on the instance: the split of whichever invocation is waiting
SharedNum(frs, p) ==
    IF frs[Other(p)].pc = "send" THEN frs[Other(p)].num ELSE frs[p].num

\* summarize, lines 46-47 and 51: num is a local of the invocation
FrameNum(frs, p) == frs[p].num

\* summarize, lines 30-33, in invocation p
ConcReturnTrivial(p) ==
    /\ frames[p].pc = "summarize"
    /\ Len(frames[p].messages) < 2
    /\ frames' = [frames EXCEPT ![p].pc = "done", ![p].result = frames[p].messages]
    /\ UNCHANGED <<inflight, cvars, pvars>>

\* summarize, lines 35-38, in invocation p
ConcReturnFits(p) ==
    /\ frames[p].pc = "summarize"
    /\ Len(frames[p].messages) >= 2
    /\ Fits(frames[p].messages, max_tokens)
    /\ frames' = [frames EXCEPT ![p].pc = "done", ![p].result = frames[p].messages]
    /\ UNCHANGED <<inflight, cvars, pvars>>

\* summarize, lines 40-49 and summarize_all, lines 61-76, in invocation p
ConcSplitAndSend(p) ==
    /\ frames[p].pc = "summarize"
    /\ frames[p].calls < MaxConcCalls
    /\ Len(frames[p].messages) >= 2
    /\ ~Fits(frames[p].messages, max_tokens)
    /\ LET split == SplitIndex(frames[p].messages)
       IN /\ frames' = [frames EXCEPT ![p].pc = "send", ![p].num = split,
                                       ![p].calls = frames[p].calls + 1]
          /\ inflight' = inflight \cup
                {[proc |-> p, call |-> frames[p].calls + 1,
                  content |-> HeadContent(SubSeq(frames[p].messages, 1, split), <<>>)]}
    /\ UNCHANGED <<cvars, pvars>>

\* summarize_all, lines 77-80 and summarize, lines 51-58, in invocation p:
\* one of its calls is answered
ConcSummaryReturns(p, response) ==
    /\ \E c \in inflight :
          /\ c.proc = p
          /\ inflight' = inflight \ {c}
    /\ LET msgs == frames[p].messages
           sized == tokenize(msgs)
           split == FrameNum(frames, p)
           tail == SubSeq(msgs, split + 1, Len(msgs))
           summary == SummaryMessages(response)
           tail_tokens == SumTokens(SubSeq(sized, split + 1, Len(sized)))
           summary_tokens == TokenCount(DumpsList(summary))
           res == Result(summary, tail)
           logged == Append(frames[p].log, <<"answer", response>>)
       IN IF StepFits(summary_tokens, tail_tokens, max_tokens)
          THEN frames' = [frames EXCEPT ![p].pc = "done", ![p].result = res,
                                        ![p].log = logged]
          ELSE frames' = [frames EXCEPT ![p].pc = "summarize", ![p].messages = res,
                                        ![p].num = Len(res), ![p].log = logged]
    /\ UNCHANGED <<cvars, pvars>>

\* simple_send_with_retries raised in invocation p
ConcSummaryFails(p, failure) ==
    /\ \E c \in inflight :
          /\ c.proc = p
          /\ inflight' = inflight \ {c}
    /\ frames' = [frames EXCEPT ![p].pc = "failed", ![p].raised = failure,
                                ![p].log = Append(frames[p].log, <<"failure", failure>>)]
    /\ UNCHANGED <<cvars, pvars>>

ConcNext ==
    \/ \E p \in Procs : ConcReturnTrivial(p)
    \/ \E p \in Procs : ConcReturnFits(p)
    \/ \E p \in Procs : ConcSplitAndSend(p)
    \/ \E p \in Procs, response \in Responses : ConcSummaryReturns(p, response)
    \/ \E p \in Procs, failure \in Failures : ConcSummaryFails(p, failure)

ConcSpec == ConcInit /\ [][ConcNext]_vars

\* ------------------------------------------------------------ properties
Returned == pc = "done"

Last(s) == s[Len(s)]

RECURSIVE CeilLog2From(_, _, _)
CeilLog2From(n, k, power) ==
    IF power >= n THEN k ELSE CeilLog2From(n, k + 1, 2 * power)

\* the least k with 2^k >= n
CeilLog2(n) == CeilLog2From(n, 0, 1)

\* C1: an input whose summed cost is within the budget, or that has fewer
\* than two turns, is returned as it is and no collaborator call is made.
Identity ==
    (Len(input) < 2 \/ Total(input) <= max_tokens) =>
        /\ calls = 0
        /\ pc \in {"summarize", "done"}
        /\ Returned => result = input

IdentityWitness ==
    /\ Returned
    /\ Len(input) >= 2
    /\ Total(input) = max_tokens
    /\ result = input

\* C2: a step on a transcript of exactly two turns ends the call: after the
\* collaborator answered, the result is returned, or at most handed to a
\* frame that returns it unchanged because it fits; no further step is taken
\* on a two-turn transcript.
TwoTurnTerminal ==
    [][(pc = "send" /\ Len(messages) = 2 /\ pc' # "failed") =>
          (pc' = "done" \/ Fits(messages', max_tokens))]_vars

\* C3: every call eventually returns a transcript or fails.
Terminates == <>(pc \in {"done", "failed"})

\* C4: a call on n turns takes at most ceil(log2(n)) + 1 recursive steps.
BoundedRecursion ==
    Len(input) >= 2 => calls <= CeilLog2(Len(input)) + 1

\* C5: the transcript of every frame and the returned transcript have at
\* most as many turns as the input; every split index is at least 1.
MonotonicShrink ==
    /\ Len(messages) <= Len(input)
    /\ pc = "send" => num >= 1
    /\ Returned => Len(result) <= Len(input)

MonotonicShrinkWitness ==
    /\ Returned
    /\ calls >= 2
    /\ Len(result) < Len(input)

\* C6: a returned transcript other than the input is one summary turn (role
\* user, content starting with the summary prefix) followed by a non-empty
\* contiguous suffix of the input, in the input's order.
OutputShape ==
    (Returned /\ result # input) =>
        /\ Len(result) >= 2
        /\ Len(result) <= Len(input)
        /\ result[1].role = "user"
        /\ startswith(result[1].content, summary_prefix)
        /\ Tail(result) = SubSeq(input, Len(input) - Len(result) + 2, Len(input))
        /\ \A i \in 2..Len(result) : ~startswith(result[i].content, summary_prefix)

OutputShapeWitness ==
    /\ Returned
    /\ calls >= 2
    /\ result # input
    /\ Len(result) >= 3

\* C7, as stated: in every split the head does not end on an assistant turn
\* unless it has length 1.
HeadNeverEndsOnAssistant ==
    pc = "send" => (num = 1 \/ messages[num].role # "assistant")

\* C7, amended: in every split the tail does not begin with an assistant
\* turn unless it has length 1.
TailNeverBeginsOnAssistant ==
    pc = "send" =>
        (Len(messages) - num = 1 \/ messages[num + 1].role # "assistant")

TailNeverBeginsOnAssistantWitness ==
    /\ pc = "send"
    /\ num > Len(messages) \div 2
    /\ messages[num].role = "assistant"
    /\ messages[num + 1].role # "assistant"

\* C8: a failure of the collaborator ends the call with that failure: no
\* transcript is returned, nothing is pending, no further call is made, and
\* a call that returned a transcript met no failure.
AllOrNothing ==
    /\ [](pc = "failed" => raised \in Failures /\ result = NoResult /\ request = <<>>)
    /\ [](Returned => raised = "none" /\ result # NoResult)
    /\ [][pc = "send" /\ raised' # "none" => pc' = "failed" /\ calls' = calls]_vars
    /\ [][pc = "failed" => pc' = "failed" /\ calls' = calls /\ raised' = raised]_vars

AllOrNothingWitness ==
    /\ pc = "failed"
    /\ calls >= 2
    /\ raised = "Timeout"

\* C9: assistant content buffered when the input ends is emitted as the
\* final assistant turn.
EndOfInputFlush ==
    (ppc = "done" /\ strip(Join(assistant)) # <<>>) =>
        /\ main_messages # <<>>
        /\ Last(main_messages) = [role |-> "assistant", content |-> Join(assistant)]
        /\ Last(handed) = Last(main_messages)

\* C10: a user-prompt line (not a command echo) first flushes non-blank
\* buffered assistant content as one assistant turn; it then adds exactly one
\* user turn, unless its remainder is empty, blank or the placeholder, in
\* which case it adds none.
IsPromptLine(line) ==
    /\ startswith(line, PromptMarker)
    /\ ~startswith(line, CommandMarker)

NoInput(line) ==
    \/ AfterPrompt(line) = <<>>
    \/ \A i \in 1..Len(AfterPrompt(line)) : AfterPrompt(line)[i] \in Whitespace
    \/ strip(AfterPrompt(line)) = BlankPlaceholder

Flushed ==
    IF \E i \in 1..Len(Join(assistant)) : Join(assistant)[i] \notin Whitespace
    THEN <<[role |-> "assistant", content |-> Join(assistant)]>>
    ELSE <<>>

UserTurnFiltering ==
    [][(ppc = "scan" /\ pos <= Len(lines) /\ pos' = pos + 1 /\ IsPromptLine(lines[pos])) =>
          IF NoInput(lines[pos])
          THEN main_messages' = main_messages \o Flushed
          ELSE /\ main_messages' # <<>>
               /\ Last(main_messages').role = "user"
               /\ SubSeq(main_messages', 1, Len(main_messages') - 1) = main_messages \o Flushed]_vars

UserTurnFilteringWitness ==
    /\ pos > 1
    /\ IsPromptLine(lines[pos - 1])
    /\ NoInput(lines[pos - 1])
    /\ strip(AfterPrompt(lines[pos - 1])) = BlankPlaceholder
    /\ assistant = <<>>
    /\ main_messages # <<>>
    /\ Last(main_messages).role = "assistant"

\* C11: a line that begins with the header marker, the quote marker or the
\* command-echo marker is discarded in every parser state: it leaves the
\* turns and the assistant buffer as they are, also when it begins with the
\* user-prompt marker; the buffer holds exactly the other lines read since
\* the last user-prompt line, and turns are only ever added at the end.
Discarded(line) ==
    \/ startswith(line, HeaderMarker)
    \/ startswith(line, QuoteMarker)
    \/ startswith(line, CommandMarker)

Kept(line) == ~Discarded(line)

IsPrefix(s, t) == Len(s) <= Len(t) /\ SubSeq(t, 1, Len(s)) = s

LastPromptBefore(p) ==
    LET prompts == {i \in 1..(p - 1) : IsPromptLine(lines[i])}
    IN IF prompts = {} THEN 0 ELSE CHOOSE i \in prompts : \A j \in prompts : j <= i

DiscardRules ==
    /\ [](ppc \in {"scan", "done"} =>
            assistant = SelectSeq(SubSeq(lines, LastPromptBefore(pos) + 1, pos - 1), Kept))
    /\ [][(ppc = "scan" /\ pos <= Len(lines) /\ pos' = pos + 1 /\ Discarded(lines[pos])) =>
            (main_messages' = main_messages /\ assistant' = assistant)]_vars
    /\ [][IsPrefix(main_messages, main_messages')]_vars

DiscardRulesWitness ==
    /\ ppc = "scan"
    /\ pos = 4
    /\ startswith(lines[2], CommandMarker)
    /\ assistant = <<lines[1], lines[3]>>
    /\ main_messages = <<>>

\* C13: in every step on n >= 2 turns the split index lies in
\* floor(n/2)..n-1, the turns from floor(n/2) up to the split are assistant
\* turns, and the turn at the split is not an assistant turn unless the
\* split is n - 1.  (num is the 0-based index of the source.)
SplitBounds ==
    pc = "send" =>
        LET n == Len(messages)
        IN /\ n >= 2
           /\ n \div 2 <= num
           /\ num <= n - 1
           /\ \A i \in (n \div 2)..(num - 1) : messages[i + 1].role = "assistant"
           /\ (messages[num + 1].role # "assistant" \/ num = n - 1)

SplitBoundsWitness ==
    /\ pc = "send"
    /\ num > Len(messages) \div 2
    /\ num = Len(messages) - 1
    /\ messages[num + 1].role = "assistant"

\* C15: the result of a step has as many turns as the step's transcript
\* exactly when the split index is 1, which is the case exactly for two
\* turns and for three turns whose middle turn is not an assistant turn;
\* every other step yields a strictly shorter result.
StepOutcome == IF pc' = "done" THEN result' ELSE messages'

SplitIsOne ==
    \/ Len(messages) = 2
    \/ Len(messages) = 3 /\ messages[2].role # "assistant"

StrictShrink ==
    [][(pc = "send" /\ pc' \in {"done", "summarize"}) =>
          /\ (Len(StepOutcome) = Len(messages)) <=> (num = 1)
          /\ (num = 1) <=> SplitIsOne
          /\ ~SplitIsOne => Len(StepOutcome) < Len(messages)]_vars

StrictShrinkWitness ==
    /\ pc = "summarize"
    /\ calls = 1
    /\ Len(input) = 3
    /\ input[2].role = "assistant"
    /\ Len(messages) = 2

\* C16: a list returned for an input of two or more messages passed one of
\* the two fit checks, so its summed cost is within max_tokens; and every
\* collaborator call is made for a transcript that is too big, so a step's
\* result that costs exactly max_tokens is returned without another call.
PassedStepCheck(msgs) ==
    /\ msgs # input
    /\ StepFits(TokenCount(DumpsList(<<msgs[1]>>)), Total(Tail(msgs)), max_tokens)

ReturnedFits ==
    /\ (Returned /\ Len(input) >= 2) =>
          /\ Total(result) <= max_tokens \/ PassedStepCheck(result)
          /\ Total(result) <= max_tokens
    /\ pc = "send" => too_big(messages, max_tokens)
    /\ (pc = "summarize" /\ Len(messages) >= 2 /\ Total(messages) = max_tokens) =>
          (ENABLED ReturnFits /\ ~ENABLED SplitAndSend)

ReturnedFitsWitness ==
    /\ Returned
    /\ calls >= 1
    /\ Total(result) = max_tokens

\* C14, as stated: the caller's list is left as it was on every path, and
\* every transcript handed on or returned is a newly built list.
ImmutableAndAlwaysNew ==
    /\ [][input' = input]_vars
    /\ [](pc = "summarize" /\ calls > 0 => messages_id # 0)
    /\ [](Returned => result_id # 0)

\* C14, amended: the caller's list is left as it was on every path; every
\* transcript built by a step is a new list, and the returned list is the
\* caller's own list exactly when no step was taken.
ImmutableInput ==
    /\ [][input' = input]_vars
    /\ [](messages_id = 0 => messages = input)
    /\ [](pc = "summarize" => (messages_id = 0 <=> calls = 0))
    /\ [](Returned => (result_id = 0 <=> calls = 0))
    /\ [](pc = "failed" => result_id = -1)

ImmutableInputWitness ==
    /\ Returned
    /\ calls >= 2
    /\ result_id = calls
    /\ result # input

\* C12: with the steps of two invocations interleaved in any order, each
\* invocation ends as it would have ended alone with the same collaborator
\* answers, and no invocation has more than one call pending.
RECURSIVE RunAlone(_, _, _)
RunAlone(msgs, limit, answers) ==
    IF Len(msgs) < 2 \/ Total(msgs) <= limit
    THEN [pc |-> "done", result |-> msgs, raised |-> "none"]
    ELSE IF answers = <<>>
    THEN [pc |-> "send", result |-> NoResult, raised |-> "none"]
    ELSE IF Head(answers)[1] = "failure"
    THEN [pc |-> "failed", result |-> NoResult, raised |-> Head(answers)[2]]
    ELSE LET split == SplitIndex(msgs)
             summary == SummaryMessages(Head(answers)[2])
             tail == SubSeq(msgs, split + 1, Len(msgs))
             res == summary \o tail
         IN IF TokenCount(DumpsList(summary)) + Total(tail) < limit
            THEN [pc |-> "done", result |-> res, raised |-> "none"]
            ELSE RunAlone(res, limit, Tail(answers))

Pending(p) == {c \in inflight : c.proc = p}

ConcurrentIndependence ==
    \A p \in Procs :
        /\ Cardinality(Pending(p)) <= 1
        /\ (frames[p].pc = "send") <=> (Pending(p) # {})
        /\ frames[p].pc \in {"done", "failed"} =>
              LET alone == RunAlone(frames[p].input, max_tokens, frames[p].log)
              IN /\ alone.pc = frames[p].pc
                 /\ alone.result = frames[p].result
                 /\ alone.raised = frames[p].raised

\* invocation 1 returned after two steps while invocation 2, one step done,
\* has its second call pending
ConcurrentIndependenceWitness ==
    /\ frames[1].pc = "done"
    /\ Len(frames[1].log) = 2
    /\ frames[1].result # frames[1].input
    /\ frames[2].pc = "send"
    /\ Len(frames[2].log) = 1
    /\ Pending(2) # {}

====
